---- MODULE Spec2Model ----
(***************************************************************************)
(* The task store of App.tsx (TaskProvider: tasks, loading, fetchTasks,    *)
(* addTask, updateTask, deleteTask), the three screens that call it        *)
(* (HomeScreen, AddTaskScreen, EditTaskScreen) and the REST server they    *)
(* talk to.  The client is one JavaScript event loop: every action below   *)
(* is one run-to-completion piece of a handler (a press, a timer, an       *)
(* effect, or the continuation after an await).  A request is sent by one  *)
(* action, handled by the server in another, and its response (or its      *)
(* failure) resumes the awaiting code in a third.                          *)
(*                                                                         *)
(* Strings are sequences of one-character strings, so that trim and the    *)
(* server's substring search are computed, not assumed.                    *)
(***************************************************************************)
EXTENDS Integers, Sequences, FiniteSets, TLC

\* Bounds of the exploration (not program constants).
MaxCalls == 2      \* fetchTasks calls in flight at once
MaxInputs == 4     \* edits, searches and requests of the user in one run

\* ------------------------------------------------------------- strings

EmptyStr == <<>>

\* The texts a user types into a title field, a description field and the
\* search bar.
TitleInputs == { <<>>, <<" ">>, <<" ", "b">> }
DescriptionInputs == { <<>>, <<"a">> }
QueryInputs == { <<>>, <<"a">> }

IsWhiteSpace(c) == c = " "

RECURSIVE TrimStart(_)
TrimStart(s) ==
    IF s # <<>> /\ IsWhiteSpace(Head(s)) THEN TrimStart(Tail(s)) ELSE s

RECURSIVE TrimEnd(_)
TrimEnd(s) ==
    IF s # <<>> /\ IsWhiteSpace(s[Len(s)])
    THEN TrimEnd(SubSeq(s, 1, Len(s) - 1))
    ELSE s

\* String.prototype.trim
Trim(s) == TrimEnd(TrimStart(s))

\* A validation that forgets the trim.
TitleRejectedNoTrim(title) == title = EmptyStr

\* `!title.trim()`: the empty string is the only falsy string.
TitleRejected(title) == Trim(title) = EmptyStr

\* needle occurs in hay as a contiguous substring
Includes(hay, needle) ==
    \E i \in 1..(Len(hay) - Len(needle) + 1) :
        SubSeq(hay, i, i + Len(needle) - 1) = needle

\* ------------------------------------------------------------- the server

\* interface Task
Task(id, title, description, isCompleted, isImportant, createdAt) ==
    [id |-> id, title |-> title, description |-> description,
     isCompleted |-> isCompleted, isImportant |-> isImportant,
     createdAt |-> createdAt]

\* The collection the server holds when the app starts.
InitialTask == Task(1, <<"a">>, <<>>, FALSE, TRUE, 1)
InitialCollections == { <<>>, <<InitialTask>> }

Ids(coll) == { coll[i].id : i \in 1..Len(coll) }

Holds(coll, id) == id \in Ids(coll)

\* GET /tasks?search=q : the empty query is no filter, otherwise a substring
\* match against title or description; the collection's order is kept.
Matches(t, q) ==
    \/ q = EmptyStr
    \/ Includes(t.title, q)
    \/ Includes(t.description, q)

ServerList(coll, q) == SelectSeq(coll, LAMBDA t : Matches(t, q))

\* GET /tasks/:id : the task, as a sequence of length 0 (not found) or 1.
ServerGet(coll, id) == SelectSeq(coll, LAMBDA t : t.id = id)

\* POST /tasks : the created task gets the next id, the server's clock as
\* createdAt and isCompleted = false.
ServerCreate(coll, id, body) ==
    Append(coll, Task(id, body.title, body.description, FALSE,
                      body.isImportant, id))

\* PUT /tasks/:id : merge-patch, only the supplied fields change.
MergePatch(t, patch) ==
    [f \in DOMAIN t |-> IF f \in DOMAIN patch THEN patch[f] ELSE t[f]]

ServerPut(coll, id, patch) ==
    [i \in 1..Len(coll) |->
        IF coll[i].id = id THEN MergePatch(coll[i], patch) ELSE coll[i]]

\* DELETE /tasks/:id
ServerDelete(coll, id) == SelectSeq(coll, LAMBDA t : t.id # id)

\* ------------------------------------------------------------- state

VARIABLES
    server,       \* the server's collection, in its order
    nextId,       \* the id the server assigns next
    tasks,        \* TaskProvider: useState<Task[]>([])
    loading,      \* TaskProvider: useState(false)
    calls,        \* the fetchTasks calls in flight, in the order issued
    reqs,         \* the POST / PUT / DELETE / GET-one requests in flight
    top,          \* the focused screen; Home stays mounted underneath
    searchQuery,  \* HomeScreen: useState('')
    homeDirty,    \* HomeScreen's focus effect is due to run
    add,          \* AddTaskScreen's state
    edit,         \* EditTaskScreen's state
    inputs,       \* edits, searches and requests of the user so far
    touched,      \* ids of the tasks the server has updated or deleted
    last          \* the step just taken, with the store and server before it

vars == <<server, nextId, tasks, loading, calls, reqs, top,
          searchQuery, homeDirty, add, edit, inputs, touched,
          last>>

NoBody == <<>>

\* useState initial values of AddTaskScreen; also its value while unmounted
AddInitial ==
    [title |-> EmptyStr, description |-> EmptyStr, isImportant |-> FALSE,
     isSaving |-> FALSE]

\* EditTaskScreen while unmounted
EditUnmounted ==
    [taskId |-> 0, task |-> <<>>, title |-> EmptyStr, description |-> EmptyStr,
     isCompleted |-> FALSE, isLoading |-> FALSE, isProcessing |-> FALSE]

\* useState initial values of EditTaskScreen for route.params.taskId
EditInitial(taskId) ==
    [taskId |-> taskId, task |-> <<>>, title |-> EmptyStr,
     description |-> EmptyStr, isCompleted |-> FALSE, isLoading |-> TRUE,
     isProcessing |-> FALSE]

\* A request just sent by the focused screen.  st is the HTTP exchange: sent,
\* then answered ok or notfound by the server.  mounted: the screen instance
\* whose handler awaits the request is still on the stack.  cached: for a
\* POST, the tasks the store held when addTask was called.
Request(kind, id, body) ==
    [kind |-> kind, id |-> id, body |-> body, st |-> "sent", resp |-> <<>>,
     mounted |-> TRUE, cached |-> <<>>]

NoReq ==
    [kind |-> "none", id |-> 0, body |-> NoBody, st |-> "none", resp |-> <<>>,
     mounted |-> FALSE, cached |-> <<>>]

\* A fetchTasks call just issued.  waiter holds the POST whose addTask awaits
\* the call (none: nobody awaits it).  overtaken: a call issued after this one
\* has already fulfilled.  alone: no other call has been in flight during
\* this one so far.  cleared: another call has returned since this one
\* started.  from: the collection the server held when it answered.
Call(q, waiter, alone) ==
    [q |-> q, st |-> "sent", resp |-> <<>>, waiter |-> waiter,
     overtaken |-> FALSE, alone |-> alone, cleared |-> FALSE,
     from |-> <<>>]

NoCall ==
    [q |-> EmptyStr, st |-> "none", resp |-> <<>>, waiter |-> <<>>,
     overtaken |-> FALSE, alone |-> FALSE, cleared |-> FALSE,
     from |-> <<>>]

\* What a step's record keeps of a request that settled, and of a call that
\* was rejected.
Brief(r) == [r EXCEPT !.body = NoBody, !.resp = <<>>, !.cached = <<>>]

Awaited(call) == [NoCall EXCEPT !.waiter = call.waiter, !.alone = call.alone]

\* The record of a step: its name, the call and the request it is about (as
\* they were before it), the store and the server before it, how many calls
\* and requests were in flight before it, and whether Home's focus effect was
\* due before it.
Step(op, call, req) ==
    [op |-> op, call |-> call, req |-> req, tasksBefore |-> tasks,
     loadingBefore |-> loading, serverBefore |-> server,
     callsBefore |-> Len(calls), reqsBefore |-> Len(reqs),
     dueBefore |-> homeDirty]

Init ==
    /\ server \in InitialCollections
    /\ nextId = Len(server) + 1
    /\ tasks = <<>>
    /\ loading = FALSE
    /\ calls = <<>>
    /\ reqs = <<>>
    /\ top = "Home"
    /\ searchQuery = EmptyStr
    /\ homeDirty = TRUE
    /\ inputs = 0
    /\ touched = {}
    /\ add = AddInitial
    /\ edit = EditUnmounted
    /\ last = [op |-> "init", call |-> NoCall, req |-> NoReq,
               tasksBefore |-> <<>>, loadingBefore |-> FALSE,
               serverBefore |-> server, callsBefore |-> 0, reqsBefore |-> 0,
               dueBefore |-> FALSE]

RemoveAt(s, i) == SubSeq(s, 1, i - 1) \o SubSeq(s, i + 1, Len(s))

\* The top screen is popped: the handlers of its instance go on running, but
\* their setState and navigation.goBack() calls do nothing any more.
Unmount(r) == [r EXCEPT !.mounted = FALSE]

UnmountAll(rs) == [i \in 1..Len(rs) |-> Unmount(rs[i])]

UnmountWaiters(cs) ==
    [i \in 1..Len(cs) |-> [cs[i] EXCEPT !.waiter = UnmountAll(cs[i].waiter)]]

\* TaskProvider renders again when a state setter changed a value; a response
\* body is a new array, so setTasks always does.  Each render makes a new
\* fetchTasks, which is a dependency of HomeScreen's focus effect.
Rerenders(tasksSet, loadingAfter) == tasksSet \/ loadingAfter # loading

\* ------------------------------------------------------------- fetchTasks

\* setTasks(response.data) merged with what the cache held
TasksMerged(old, data) ==
    data \o SelectSeq(old, LAMBDA t : \A i \in 1..Len(data) : data[i] # t)

\* setTasks(response.data)
TasksAfterFetch(old, data) == data

\* a catch block that clears the list
TasksCleared(old) == <<>>

\* catch: console.error only
TasksAfterFetchError(old) == old

\* the finally block left out
LoadingNeverCleared(ok, cur) == cur

\* setLoading(false) inside the try block
LoadingClearedOnSuccessOnly(ok, cur) == IF ok THEN FALSE ELSE cur

\* finally: setLoading(false)
LoadingAfterFetch(ok, cur) == FALSE

\* setLoading(true) left out
LoadingLeftAtStart(cur) == cur

\* fetchTasks: setLoading(true)
LoadingAtFetchStart(cur) == TRUE

\* a fetchTasks that drops the response of a call a later call has overtaken
ResponseAppliedUnlessOvertaken(call) == ~call.overtaken

\* fetchTasks keeps no sequence number and no cancellation token: the
\* response of every call that fulfils is applied
ResponseIsApplied(call) == TRUE

\* a fetchTasks that lets its failure through to addTask
AddTaskReturnsOnFetchSuccess(ok) == ok

\* fetchTasks catches its failure, so addTask's `await fetchTasks()` never
\* throws: addTask returns whether the call fulfilled or not
AddTaskReturns(ok) == TRUE

\* fetchTasks up to its await: setLoading(true) and the GET is sent.
FetchTasksStart(q, waiter) ==
    /\ loading' = LoadingAtFetchStart(loading)
    /\ calls' = Append([i \in 1..Len(calls) |-> [calls[i] EXCEPT !.alone = FALSE]],
                       Call(q, waiter, calls = <<>>))

\* the server answers the GET of call c with its filtered collection
ServerAnswerList(c) ==
    /\ calls[c].st = "sent"
    /\ calls' = [calls EXCEPT ![c].st = "ok",
                              ![c].resp = ServerList(server, calls[c].q),
                              ![c].from = server]
    /\ last' = Step("serverList", NoCall, NoReq)
    /\ UNCHANGED <<touched, inputs, server, nextId, tasks, loading, reqs, top,
                   searchQuery, homeDirty, add, edit>>

\* axios fulfils a request's promise on a 2xx response and rejects it on any
\* other status
AxiosFulfils(st) == st = "ok"

\* it rejects as well when no (well-formed) response arrives, which can happen
\* before or after the server handled the request
AxiosRejects(st) == st \in {"sent", "ok", "notfound"}

\* fetchTasks after its await, for call c: try { setTasks(response.data) }
\* catch { console.error } finally { setLoading(false) }.  When the call is
\* the one addTask awaits, addTask then returns and handleSave goes on in the
\* same turn: the success alert, navigation.goBack() (which pops the screen if
\* it is still there, and Home gains focus) and setIsSaving(false).  (Were
\* addTask to throw, handleSave's catch and finally would run instead.)
FetchTasksSettle(c, ok) ==
    /\ IF ok THEN AxiosFulfils(calls[c].st) ELSE AxiosRejects(calls[c].st)
    /\ tasks' = IF ~ok THEN TasksAfterFetchError(tasks)
                ELSE IF ResponseIsApplied(calls[c])
                     THEN TasksAfterFetch(tasks, calls[c].resp)
                     ELSE tasks
    /\ loading' = LoadingAfterFetch(ok, loading)
    /\ LET w == calls[c].waiter
           back == w # <<>> /\ w[1].mounted
           pops == back /\ AddTaskReturns(ok)
           rest == [i \in 1..Len(calls) |->
                      [calls[i] EXCEPT !.overtaken = @ \/ (ok /\ i < c),
                                       !.cleared = TRUE]]
       IN  /\ calls' = IF pops THEN UnmountWaiters(RemoveAt(rest, c))
                               ELSE RemoveAt(rest, c)
           /\ reqs' = IF pops THEN UnmountAll(reqs) ELSE reqs
           /\ top' = IF pops THEN "Home" ELSE top
           /\ add' = IF pops THEN AddInitial
                      ELSE IF back THEN [add EXCEPT !.isSaving = FALSE]
                      ELSE add
           /\ homeDirty' = IF top' = "Home"
                           THEN homeDirty \/ pops \/ Rerenders(ok, loading')
                           ELSE FALSE
           /\ last' = IF ok THEN Step("fetchResolved", calls[c], NoReq)
                            ELSE Step("fetchRejected", Awaited(calls[c]), NoReq)
    /\ UNCHANGED <<touched, inputs, server, nextId, searchQuery, edit>>

FetchTasksResolved(c) == FetchTasksSettle(c, TRUE)

FetchTasksRejected(c) == FetchTasksSettle(c, FALSE)

\* ------------------------------------------------------------- HomeScreen

\* a focus effect that calls fetchTasks() without the search text
FocusEffectNoQuery(query) == EmptyStr

\* the focus effect calls fetchTasks(searchQuery)
FocusEffectQuery(query) == query

\* useFocusEffect(useCallback(() => fetchTasks(searchQuery),
\* [searchQuery, fetchTasks])): runs when Home gains focus and, while Home is
\* focused, whenever searchQuery or fetchTasks changed.  Its own
\* setLoading(true) renders TaskProvider again when loading was false.
HomeFocusEffect ==
    /\ top = "Home"
    /\ homeDirty
    /\ Len(calls) < MaxCalls
    /\ FetchTasksStart(FocusEffectQuery(searchQuery), <<>>)
    /\ homeDirty' = Rerenders(FALSE, loading')
    /\ last' = Step("fetchStart", NoCall, NoReq)
    /\ UNCHANGED <<touched, inputs, server, nextId, tasks, reqs, top, searchQuery, add, edit>>

\* handleSearch, called by SearchBar's 300 ms timer with the text typed; the
\* timer can fire after another screen was pushed over Home.
HandleSearch(query) ==
    /\ inputs < MaxInputs
    /\ inputs' = inputs + 1
    /\ query # searchQuery
    /\ searchQuery' = query
    /\ homeDirty' = (top = "Home")
    /\ last' = Step("handleSearch", NoCall, NoReq)
    /\ UNCHANGED <<touched, server, nextId, tasks, loading, calls, reqs, top,
                   add, edit>>

\* the floating button: navigation.navigate('AddTask')
NavigateAddTask ==
    /\ top = "Home"
    /\ top' = "AddTask"
    /\ add' = AddInitial
    /\ homeDirty' = FALSE
    /\ last' = Step("navigate", NoCall, NoReq)
    /\ UNCHANGED <<touched, inputs, server, nextId, tasks, loading, calls, reqs, searchQuery,
                   edit>>

\* handleTaskPress on the i-th card of the list: navigate('EditTask', {taskId});
\* the new screen's focus effect, fetchTaskDetails, sets isLoading and sends
\* GET /tasks/:id.
HandleTaskPress(i) ==
    /\ inputs < MaxInputs
    /\ inputs' = inputs + 1
    /\ top = "Home"
    /\ top' = "EditTask"
    /\ edit' = EditInitial(tasks[i].id)
    /\ reqs' = Append(reqs, Request("get", tasks[i].id, NoBody))
    /\ homeDirty' = FALSE
    /\ last' = Step("handleTaskPress", NoCall, NoReq)
    /\ UNCHANGED <<touched, server, nextId, tasks, loading, calls, searchQuery, add>>

\* the header's back arrow of AddTaskScreen or EditTaskScreen
GoBack ==
    /\ top # "Home"
    /\ top' = "Home"
    /\ add' = AddInitial
    /\ edit' = EditUnmounted
    /\ reqs' = UnmountAll(reqs)
    /\ calls' = UnmountWaiters(calls)
    /\ homeDirty' = TRUE
    /\ last' = Step("goBack", NoCall, NoReq)
    /\ UNCHANGED <<touched, inputs, server, nextId, tasks, loading, searchQuery>>

\* ------------------------------------------------------------- the server at work

\* the server handles request r against the collection it holds then; the
\* response of a POST is the created task, that of a GET the task asked for
ServerHandle(r) ==
    /\ reqs[r].st = "sent"
    /\ LET q == reqs[r]
           found == Holds(server, q.id)
           answer == IF found THEN "ok" ELSE "notfound"
       IN  CASE q.kind = "post" ->
                  /\ server' = ServerCreate(server, nextId, q.body)
                  /\ nextId' = nextId + 1
                  /\ touched' = touched
                  /\ reqs' = [reqs EXCEPT ![r].st = "ok",
                                          ![r].resp = ServerGet(server', nextId)]
             [] q.kind = "put" ->
                  /\ server' = IF found THEN ServerPut(server, q.id, q.body)
                                        ELSE server
                  /\ nextId' = nextId
                  /\ touched' = IF found THEN touched \cup {q.id} ELSE touched
                  /\ reqs' = [reqs EXCEPT ![r].st = answer]
             [] q.kind = "delete" ->
                  /\ server' = IF found THEN ServerDelete(server, q.id)
                                        ELSE server
                  /\ nextId' = nextId
                  /\ touched' = IF found THEN touched \cup {q.id} ELSE touched
                  /\ reqs' = [reqs EXCEPT ![r].st = answer]
             [] q.kind = "get" ->
                  /\ server' = server
                  /\ nextId' = nextId
                  /\ touched' = touched
                  /\ reqs' = [reqs EXCEPT ![r].st = answer,
                                          ![r].resp = ServerGet(server, q.id)]
    /\ last' = Step("serverHandle", NoCall, reqs[r])
    /\ UNCHANGED <<tasks, loading, calls, top, searchQuery, homeDirty,
                   add, edit, inputs>>

\* ------------------------------------------------------------- AddTaskScreen

\* onChange of the three fields
AddSetTitle(t) ==
    /\ inputs < MaxInputs
    /\ inputs' = inputs + 1
    /\ top = "AddTask"
    /\ t # add.title
    /\ add' = [add EXCEPT !.title = t]
    /\ last' = Step("input", NoCall, NoReq)
    /\ UNCHANGED <<touched, server, nextId, tasks, loading, calls, reqs, top,
                   searchQuery, homeDirty, edit>>

AddSetDescription(d) ==
    /\ inputs < MaxInputs
    /\ inputs' = inputs + 1
    /\ top = "AddTask"
    /\ d # add.description
    /\ add' = [add EXCEPT !.description = d]
    /\ last' = Step("input", NoCall, NoReq)
    /\ UNCHANGED <<touched, server, nextId, tasks, loading, calls, reqs, top,
                   searchQuery, homeDirty, edit>>

AddSetIsImportant ==
    /\ inputs < MaxInputs
    /\ inputs' = inputs + 1
    /\ top = "AddTask"
    /\ add' = [add EXCEPT !.isImportant = ~add.isImportant]
    /\ last' = Step("input", NoCall, NoReq)
    /\ UNCHANGED <<touched, server, nextId, tasks, loading, calls, reqs, top,
                   searchQuery, homeDirty, edit>>

\* a payload that leaves the switch out
SavePayloadNotImportant(form) ==
    [title |-> form.title, description |-> form.description,
     isImportant |-> FALSE]

\* addTask({title, description, isImportant})
SavePayload(form) ==
    [title |-> form.title, description |-> form.description,
     isImportant |-> form.isImportant]

\* handleSave, the button being enabled.  A title that trims to nothing: the
\* alert, and return.  Otherwise up to addTask's first await:
\* setIsSaving(true), and addTask sends POST /tasks with the fields as typed.
HandleSave ==
    /\ inputs < MaxInputs
    /\ inputs' = inputs + 1
    /\ top = "AddTask"
    /\ ~add.isSaving
    /\ IF TitleRejected(add.title)
       THEN /\ last' = Step("handleSaveRejected", NoCall, NoReq)
            /\ UNCHANGED <<reqs, add>>
       ELSE /\ add' = [add EXCEPT !.isSaving = TRUE]
            /\ reqs' = Append(reqs,
                         [Request("post", 0, SavePayload(add))
                              EXCEPT !.cached = tasks])
            /\ last' = Step("handleSave", NoCall, reqs'[Len(reqs')])
    /\ UNCHANGED <<touched, server, nextId, tasks, loading, calls, top,
                   searchQuery, homeDirty, edit>>

\* a refresh that passes the search text on
RefreshWithSearchQuery(query) == query

\* addTask calls fetchTasks(): the parameter takes its default, ''
AddTaskRefreshQuery(query) == EmptyStr

\* addTask after `await axios.post`: the POST fulfilled, so fetchTasks() is
\* called with no query and awaited
AddTaskPosted(r) ==
    /\ reqs[r].kind = "post"
    /\ AxiosFulfils(reqs[r].st)
    /\ Len(calls) < MaxCalls
    /\ reqs' = RemoveAt(reqs, r)
    /\ FetchTasksStart(AddTaskRefreshQuery(searchQuery), <<reqs[r]>>)
    /\ homeDirty' = IF top = "Home" THEN homeDirty \/ Rerenders(FALSE, loading')
                                    ELSE FALSE
    /\ last' = Step("addTaskPosted", NoCall, Brief(reqs[r]))
    /\ UNCHANGED <<touched, inputs, server, nextId, tasks, top, searchQuery, add, edit>>

\* the POST rejected: addTask rejects without fetching; handleSave's catch
\* shows the alert and its finally does setIsSaving(false)
AddTaskFailed(r) ==
    /\ reqs[r].kind = "post"
    /\ AxiosRejects(reqs[r].st)
    /\ reqs' = RemoveAt(reqs, r)
    /\ add' = IF reqs[r].mounted THEN [add EXCEPT !.isSaving = FALSE] ELSE add
    /\ last' = Step("addTaskFailed", NoCall, Brief(reqs[r]))
    /\ UNCHANGED <<touched, inputs, server, nextId, tasks, loading, calls, top,
                   searchQuery, homeDirty, edit>>

\* ------------------------------------------------------------- EditTaskScreen

\* fetchTaskDetails after its await, the GET fulfilled: the form is filled
\* from the task and shown (setState of a screen that is gone does nothing)
DetailsLoaded(r) ==
    /\ reqs[r].kind = "get"
    /\ AxiosFulfils(reqs[r].st)
    /\ reqs' = RemoveAt(reqs, r)
    /\ edit' = IF reqs[r].mounted
               THEN LET fetchedTask == reqs[r].resp[1]
                    IN  [edit EXCEPT !.task = reqs[r].resp,
                                     !.title = fetchedTask.title,
                                     !.description = fetchedTask.description,
                                     !.isCompleted = fetchedTask.isCompleted,
                                     !.isLoading = FALSE]
               ELSE edit
    /\ last' = Step("detailsLoaded", NoCall, Brief(reqs[r]))
    /\ UNCHANGED <<touched, inputs, server, nextId, tasks, loading, calls, top,
                   searchQuery, homeDirty, add>>

\* the GET rejected: the alert, navigation.goBack(), setIsLoading(false)
DetailsFailed(r) ==
    /\ reqs[r].kind = "get"
    /\ AxiosRejects(reqs[r].st)
    /\ LET pops == reqs[r].mounted
       IN  /\ reqs' = IF pops THEN UnmountAll(RemoveAt(reqs, r))
                              ELSE RemoveAt(reqs, r)
           /\ top' = IF pops THEN "Home" ELSE top
           /\ edit' = IF pops THEN EditUnmounted ELSE edit
           /\ homeDirty' = IF pops THEN TRUE ELSE homeDirty
    /\ last' = Step("detailsFailed", NoCall, Brief(reqs[r]))
    /\ UNCHANGED <<touched, inputs, server, nextId, tasks, loading, calls, searchQuery, add>>

\* the form is rendered: not while isLoading, and not without a task
FormShown == top = "EditTask" /\ ~edit.isLoading /\ edit.task # <<>>

EditSetTitle(t) ==
    /\ inputs < MaxInputs
    /\ inputs' = inputs + 1
    /\ FormShown
    /\ t # edit.title
    /\ edit' = [edit EXCEPT !.title = t]
    /\ last' = Step("input", NoCall, NoReq)
    /\ UNCHANGED <<touched, server, nextId, tasks, loading, calls, reqs, top,
                   searchQuery, homeDirty, add>>

EditSetDescription(d) ==
    /\ inputs < MaxInputs
    /\ inputs' = inputs + 1
    /\ FormShown
    /\ d # edit.description
    /\ edit' = [edit EXCEPT !.description = d]
    /\ last' = Step("input", NoCall, NoReq)
    /\ UNCHANGED <<touched, server, nextId, tasks, loading, calls, reqs, top,
                   searchQuery, homeDirty, add>>

EditSetIsCompleted ==
    /\ inputs < MaxInputs
    /\ inputs' = inputs + 1
    /\ FormShown
    /\ edit' = [edit EXCEPT !.isCompleted = ~edit.isCompleted]
    /\ last' = Step("input", NoCall, NoReq)
    /\ UNCHANGED <<touched, server, nextId, tasks, loading, calls, reqs, top,
                   searchQuery, homeDirty, add>>

\* an update that sends the important mark too, as a new task's default
UpdatePayloadWithImportant(form) ==
    [title |-> form.title, description |-> form.description,
     isCompleted |-> form.isCompleted, isImportant |-> FALSE]

\* updateTask(taskId, {title, description, isCompleted})
UpdatePayload(form) ==
    [title |-> form.title, description |-> form.description,
     isCompleted |-> form.isCompleted]

\* handleUpdate, the button being enabled.  A title that trims to nothing:
\* the alert, and return.  Otherwise up to updateTask's await:
\* setIsProcessing(true), and updateTask sends PUT /tasks/:id with title,
\* description and isCompleted.
HandleUpdate ==
    /\ inputs < MaxInputs
    /\ inputs' = inputs + 1
    /\ FormShown
    /\ ~edit.isProcessing
    /\ IF TitleRejected(edit.title)
       THEN /\ last' = Step("handleUpdateRejected", NoCall, NoReq)
            /\ UNCHANGED <<reqs, edit>>
       ELSE /\ edit' = [edit EXCEPT !.isProcessing = TRUE]
            /\ reqs' = Append(reqs,
                         Request("put", edit.taskId, UpdatePayload(edit)))
            /\ last' = Step("handleUpdate", NoCall, reqs'[Len(reqs')])
    /\ UNCHANGED <<touched, server, nextId, tasks, loading, calls, top,
                   searchQuery, homeDirty, add>>

\* handleDelete, confirmed with the dialog's "Sil" button, up to deleteTask's
\* await: setIsProcessing(true), and deleteTask sends DELETE /tasks/:id
HandleDelete ==
    /\ inputs < MaxInputs
    /\ inputs' = inputs + 1
    /\ FormShown
    /\ ~edit.isProcessing
    /\ edit' = [edit EXCEPT !.isProcessing = TRUE]
    /\ reqs' = Append(reqs, Request("delete", edit.taskId, NoBody))
    /\ last' = Step("handleDelete", NoCall, reqs'[Len(reqs')])
    /\ UNCHANGED <<touched, server, nextId, tasks, loading, calls, top,
                   searchQuery, homeDirty, add>>

\* an updateTask / a deleteTask that catches the failure of its request
UpdateTaskSwallows(st) == AxiosFulfils(st) \/ AxiosRejects(st)

DeleteTaskSwallows(st) == AxiosFulfils(st) \/ AxiosRejects(st)

\* updateTask and deleteTask await the request outside any try: they fulfil
\* when it does and reject when it does
UpdateTaskFulfils(st) == AxiosFulfils(st)

DeleteTaskFulfils(st) == AxiosFulfils(st)

\* an updateTask that also patches the cached copy
TasksPatchedLocally(old, id, patch) == ServerPut(old, id, patch)

\* updateTask after `await axios.put`: nothing, the store is not touched
TasksAfterUpdate(old, id, patch) == old

\* a deleteTask that also drops the cached copy
TasksDroppedLocally(old, id) == ServerDelete(old, id)

\* deleteTask after `await axios.delete`: nothing, the store is not touched
TasksAfterDelete(old, id) == old

\* updateTask / deleteTask fulfilled (kind put / delete): the handler shows
\* the success alert, navigation.goBack() pops the screen if it is still
\* there (Home gains focus), and setIsProcessing(false)
MutationDone(r, kind) ==
    /\ reqs[r].kind = kind
    /\ IF kind = "put" THEN UpdateTaskFulfils(reqs[r].st)
                       ELSE DeleteTaskFulfils(reqs[r].st)
    /\ tasks' = IF kind = "put"
                THEN TasksAfterUpdate(tasks, reqs[r].id, reqs[r].body)
                ELSE TasksAfterDelete(tasks, reqs[r].id)
    /\ LET pops == reqs[r].mounted
       IN  /\ reqs' = IF pops THEN UnmountAll(RemoveAt(reqs, r))
                              ELSE RemoveAt(reqs, r)
           /\ top' = IF pops THEN "Home" ELSE top
           /\ edit' = IF pops THEN EditUnmounted ELSE edit
           /\ homeDirty' = IF pops THEN TRUE ELSE homeDirty
    /\ UNCHANGED <<touched, inputs, server, nextId, loading, calls, searchQuery, add>>

\* updateTask / deleteTask rejected: the handler's catch shows the alert, and
\* setIsProcessing(false); the screen stays
MutationFailed(r, kind) ==
    /\ reqs[r].kind = kind
    /\ AxiosRejects(reqs[r].st)
    /\ reqs' = RemoveAt(reqs, r)
    /\ edit' = IF reqs[r].mounted THEN [edit EXCEPT !.isProcessing = FALSE]
                                  ELSE edit
    /\ UNCHANGED <<touched, inputs, server, nextId, tasks, loading, calls, top,
                   searchQuery, homeDirty, add>>

UpdateTaskDone(r) ==
    /\ MutationDone(r, "put")
    /\ last' = Step("updateTaskDone", NoCall, Brief(reqs[r]))

UpdateTaskFailed(r) ==
    /\ MutationFailed(r, "put")
    /\ last' = Step("updateTaskFailed", NoCall, Brief(reqs[r]))

DeleteTaskDone(r) ==
    /\ MutationDone(r, "delete")
    /\ last' = Step("deleteTaskDone", NoCall, Brief(reqs[r]))

DeleteTaskFailed(r) ==
    /\ MutationFailed(r, "delete")
    /\ last' = Step("deleteTaskFailed", NoCall, Brief(reqs[r]))

\* ------------------------------------------------------------- specification

Next ==
    \/ HomeFocusEffect
    \/ \E q \in QueryInputs : HandleSearch(q)
    \/ NavigateAddTask
    \/ \E i \in 1..Len(tasks) : HandleTaskPress(i)
    \/ GoBack
    \/ \E c \in 1..Len(calls) : ServerAnswerList(c)
    \/ \E c \in 1..Len(calls) : FetchTasksResolved(c)
    \/ \E c \in 1..Len(calls) : FetchTasksRejected(c)
    \/ \E r \in 1..Len(reqs) : ServerHandle(r)
    \/ \E t \in TitleInputs : AddSetTitle(t)
    \/ \E d \in DescriptionInputs : AddSetDescription(d)
    \/ AddSetIsImportant
    \/ HandleSave
    \/ \E r \in 1..Len(reqs) : AddTaskPosted(r)
    \/ \E r \in 1..Len(reqs) : AddTaskFailed(r)
    \/ \E r \in 1..Len(reqs) : DetailsLoaded(r)
    \/ \E r \in 1..Len(reqs) : DetailsFailed(r)
    \/ \E t \in TitleInputs : EditSetTitle(t)
    \/ \E d \in DescriptionInputs : EditSetDescription(d)
    \/ EditSetIsCompleted
    \/ HandleUpdate
    \/ HandleDelete
    \/ \E r \in 1..Len(reqs) : UpdateTaskDone(r)
    \/ \E r \in 1..Len(reqs) : UpdateTaskFailed(r)
    \/ \E r \in 1..Len(reqs) : DeleteTaskDone(r)
    \/ \E r \in 1..Len(reqs) : DeleteTaskFailed(r)

Spec == Init /\ [][Next]_vars

\* ------------------------------------------------------------- properties

Range(s) == { s[i] : i \in 1..Len(s) }

FetchStarts == {"fetchStart", "addTaskPosted"}

FetchSettles == {"fetchResolved", "fetchRejected"}

MutationsDone == {"updateTaskDone", "deleteTaskDone"}

MutationsFailed == {"updateTaskFailed", "deleteTaskFailed"}

\* C1: when a fetchTasks call succeeds, the cached tasks are exactly the
\* response body of that call, in the server's order: nothing the cache held
\* before is merged in, and every cached task matches the call's query.
FetchReplacesCache ==
    last.op = "fetchResolved" =>
        /\ tasks = last.call.resp
        /\ \A i \in 1..Len(tasks) : Matches(tasks[i], last.call.q)

\* A successful fetch has dropped a task the cache held and left others.
FetchReplacesCacheSeen ==
    /\ last.op = "fetchResolved"
    /\ tasks # <<>>
    /\ \E t \in Range(last.tasksBefore) : t \notin Range(tasks)

LoadingBracketsFetch ==
    /\ last.op \in FetchStarts => loading
    /\ last.op \in FetchSettles => ~loading
    /\ (last.op \in FetchStarts /\ last.callsBefore = 0) => ~last.loadingBefore
    /\ (last.op \in FetchSettles /\ last.call.alone) => last.loadingBefore
    /\ last.op \notin (FetchStarts \cup FetchSettles) =>
           loading = last.loadingBefore

\* A call that no other call overlapped has failed, and loading went from true
\* to false.
LoadingBracketsFetchSeen ==
    /\ last.op = "fetchRejected"
    /\ last.call.alone
    /\ last.loadingBefore
    /\ ~loading

\* C4: when its POST succeeds, addTask calls fetchTasks with the empty query,
\* whatever the search text is, and does not return before that call has: the
\* screen stays, saving, until the call settles, and is popped then.  When
\* its POST fails, addTask starts no fetch, leaves tasks and loading as they
\* were, and fails to handleSave, which stays on the screen and re-enables
\* the button.
AddTaskRefreshes ==
    /\ last.op = "addTaskPosted" =>
           /\ last.req.st = "ok"
           /\ Len(calls) = last.callsBefore + 1
           /\ calls[Len(calls)].q = EmptyStr
           /\ calls[Len(calls)].st = "sent"
           /\ calls[Len(calls)].waiter # <<>>
           /\ Brief(calls[Len(calls)].waiter[1]) = last.req
           /\ tasks = last.tasksBefore
           /\ last.req.mounted => top = "AddTask" /\ add.isSaving
    /\ last.op = "addTaskFailed" =>
           /\ Len(calls) = last.callsBefore
           /\ tasks = last.tasksBefore
           /\ loading = last.loadingBefore
           /\ last.req.mounted => top = "AddTask" /\ ~add.isSaving
    /\ (last.op \in FetchSettles /\ last.call.waiter # <<>>) =>
           (last.call.waiter[1].mounted => top = "Home")

\* addTask has started its refresh while the search bar held a text.
AddTaskRefreshesSeen ==
    /\ last.op = "addTaskPosted"
    /\ searchQuery # EmptyStr
    /\ last.req.mounted

OnlyWhitespace(s) == \A i \in 1..Len(s) : s[i] = " "

\* C6: handleSave and handleUpdate pressed over a title that is empty or all
\* whitespace send no request, call no store operation, change neither the
\* server nor the store, and do not raise isSaving / isProcessing; every POST
\* and PUT that is sent carries a title with a non-whitespace character.
BlankTitleSendsNothing ==
    /\ last.op \in {"handleSaveRejected", "handleUpdateRejected"} =>
           /\ Len(reqs) = last.reqsBefore
           /\ Len(calls) = last.callsBefore
           /\ server = last.serverBefore
           /\ tasks = last.tasksBefore
           /\ loading = last.loadingBefore
    /\ last.op = "handleSaveRejected" =>
           top = "AddTask" /\ ~add.isSaving /\ OnlyWhitespace(add.title)
    /\ last.op = "handleUpdateRejected" =>
           top = "EditTask" /\ ~edit.isProcessing /\ OnlyWhitespace(edit.title)
    /\ last.op \in {"handleSave", "handleUpdate"} =>
           ~OnlyWhitespace(last.req.body.title)
    /\ \A r \in 1..Len(reqs) :
           reqs[r].kind \in {"post", "put"} =>
               ~OnlyWhitespace(reqs[r].body.title)

\* handleSave has turned down a title that is one space.
BlankTitleSendsNothingSeen ==
    /\ last.op = "handleSaveRejected"
    /\ add.title = <<" ">>

\* C7: a fulfilled call that a later-issued call has already overtaken still
\* writes its response into the cache: the response that arrives last wins.
StaleResponseOverwrites ==
    (last.op = "fetchResolved" /\ last.call.overtaken) =>
        tasks = last.call.resp

\* The response to an earlier query has replaced the list the current query
\* had fetched.
StaleResponseOverwritesSeen ==
    /\ last.op = "fetchResolved"
    /\ last.call.overtaken
    /\ last.call.q # searchQuery
    /\ tasks # last.tasksBefore

CreatedFrom(t, body) ==
    /\ t.title = body.title
    /\ t.description = body.description
    /\ t.isImportant = body.isImportant
    /\ ~t.isCompleted

\* the POST whose addTask awaits the call of the step just taken
Poster == last.call.waiter[1]

\* C8 (as stated): once addTask's POST has succeeded and its refresh has
\* succeeded, the cache holds a task with the payload's title, description
\* and isImportant and with isCompleted false.
CreatedTaskCached ==
    (last.op = "fetchResolved" /\ last.call.waiter # <<>>) =>
        \E i \in 1..Len(tasks) : CreatedFrom(tasks[i], Poster.body)

\* C8 (amended): handleSave posts the form as typed; the server appends a task
\* with the payload's title, description and isImportant and isCompleted
\* false; and once addTask's refresh has succeeded the cache holds such a
\* task, provided the server has not updated or deleted the created task.
CreatedTaskCachedIfUntouched ==
    /\ last.op = "handleSave" =>
           /\ last.req.kind = "post"
           /\ last.req.body.title = add.title
           /\ last.req.body.description = add.description
           /\ last.req.body.isImportant = add.isImportant
    /\ (last.op = "serverHandle" /\ last.req.kind = "post") =>
           /\ Len(server) = Len(last.serverBefore) + 1
           /\ CreatedFrom(server[Len(server)], last.req.body)
    /\ (last.op = "fetchResolved" /\ last.call.waiter # <<>>) =>
           (Poster.resp[1].id \notin touched =>
                \E i \in 1..Len(tasks) : CreatedFrom(tasks[i], Poster.body))

\* The refresh of an addTask has brought a task with a description and the
\* important mark into a cache of two tasks.
CreatedTaskCachedSeen ==
    /\ last.op = "fetchResolved"
    /\ last.call.waiter # <<>>
    /\ Poster.resp[1].id \notin touched
    /\ Poster.body.isImportant
    /\ Poster.body.description # EmptyStr
    /\ Len(tasks) = 2

\* C9: a PUT or DELETE for an id the server does not hold is answered
\* not-found and changes neither the server nor the cache; updateTask and
\* deleteTask fulfil on an ok answer only, so such a call rejects, and a
\* rejected call changes neither the cache nor the server.
MissingIdFails ==
    /\ (/\ last.op = "serverHandle"
        /\ last.req.kind \in {"put", "delete"}
        /\ ~Holds(last.serverBefore, last.req.id)) =>
           /\ server = last.serverBefore
           /\ tasks = last.tasksBefore
           /\ \E r \in 1..Len(reqs) :
                  reqs[r] = [last.req EXCEPT !.st = "notfound"]
    /\ \A r \in 1..Len(reqs) :
           reqs[r].st = "notfound" => ~Holds(server, reqs[r].id)
    /\ last.op \in MutationsDone => last.req.st = "ok"
    /\ last.op \in MutationsFailed =>
           tasks = last.tasksBefore /\ server = last.serverBefore

\* updateTask has rejected on a not-found answer.
MissingIdFailsSeen ==
    /\ last.op = "updateTaskFailed"
    /\ last.req.st = "notfound"
    /\ last.req.mounted

\* C10: the server removes the task on the first DELETE it handles for an id
\* and answers ok; any later DELETE for that id is answered not-found and
\* changes nothing on the server; the deleteTask of such a request rejects,
\* and changes neither the cache nor the server.
SecondDeleteFails ==
    /\ (last.op = "serverHandle" /\ last.req.kind = "delete") =>
           IF Holds(last.serverBefore, last.req.id)
           THEN /\ server = ServerDelete(last.serverBefore, last.req.id)
                /\ Len(server) = Len(last.serverBefore) - 1
                /\ ~Holds(server, last.req.id)
                /\ \E r \in 1..Len(reqs) :
                       reqs[r] = [last.req EXCEPT !.st = "ok"]
           ELSE /\ server = last.serverBefore
                /\ \E r \in 1..Len(reqs) :
                       reqs[r] = [last.req EXCEPT !.st = "notfound"]
    /\ \A r, q \in 1..Len(reqs) :
           (/\ r # q
            /\ reqs[r].kind = "delete"
            /\ reqs[q].kind = "delete"
            /\ reqs[r].id = reqs[q].id) => ~(reqs[r].st = "ok" /\ reqs[q].st = "ok")
    /\ last.op = "deleteTaskDone" =>
           last.req.st = "ok" /\ ~Holds(server, last.req.id)
    /\ last.op = "deleteTaskFailed" =>
           tasks = last.tasksBefore /\ server = last.serverBefore

\* deleteTask has rejected on a not-found answer, for a task the server had
\* deleted before.
SecondDeleteFailsSeen ==
    /\ last.op = "deleteTaskFailed"
    /\ last.req.st = "notfound"
    /\ last.req.id \in touched
    /\ last.req.mounted

\* C11 (as stated): while a fetchTasks call has no response, loading is true,
\* whatever other calls do meanwhile.  (A call that has none yet may never get
\* one, so the claim is this invariant.)
HungFetchKeepsLoading ==
    calls # <<>> => loading

\* C11 (amended): while a fetchTasks call has no response, loading is true as
\* long as no other fetchTasks call has returned since that call started.
HungFetchKeepsLoadingUntilCleared ==
    \A c \in 1..Len(calls) : ~calls[c].cleared => loading

\* A call is still without a response after the user has done all they can,
\* a second call has been issued beside it, and loading is still true.
HungFetchKeepsLoadingSeen ==
    /\ Len(calls) = 2
    /\ calls[1].st = "sent"
    /\ ~calls[1].cleared
    /\ loading
    /\ inputs = MaxInputs

\* C12: every PUT the edit screen sends carries title, description and
\* isCompleted and nothing else; when the server handles a PUT it keeps the
\* tasks it holds, in their places, each with the id, isImportant and
\* createdAt it had; and at no step does a task the server goes on holding
\* change its isImportant or createdAt.
EditKeepsImportantIdCreatedAt ==
    /\ \A r \in 1..Len(reqs) :
           reqs[r].kind = "put" =>
               DOMAIN reqs[r].body = {"title", "description", "isCompleted"}
    /\ (last.op = "serverHandle" /\ last.req.kind = "put") =>
           /\ Len(server) = Len(last.serverBefore)
           /\ \A i \in 1..Len(server) :
                  /\ server[i].id = last.serverBefore[i].id
                  /\ server[i].isImportant = last.serverBefore[i].isImportant
                  /\ server[i].createdAt = last.serverBefore[i].createdAt
    /\ \A i \in 1..Len(last.serverBefore) : \A j \in 1..Len(server) :
           server[j].id = last.serverBefore[i].id =>
               /\ server[j].isImportant = last.serverBefore[i].isImportant
               /\ server[j].createdAt = last.serverBefore[i].createdAt

\* The server has applied an update that changed an important task.
EditKeepsImportantIdCreatedAtSeen ==
    /\ last.op = "serverHandle"
    /\ last.req.kind = "put"
    /\ \E i \in 1..Len(server) :
           /\ server[i].id = last.req.id
           /\ server[i].isImportant
           /\ server[i] # last.serverBefore[i]

\* the steps of the screens that call no store operation, or only start one
ScreenSteps ==
    {"input", "handleSearch", "navigate", "handleTaskPress", "goBack",
     "handleSave", "handleSaveRejected", "handleUpdate", "handleUpdateRejected",
     "handleDelete", "detailsLoaded", "detailsFailed"}

\* C13: a step changes tasks only if it is a fetchTasks call fulfilling, and
\* changes loading only if it is a fetchTasks call starting (from the focus
\* effect or inside addTask) or returning; the steps of the screens (typing,
\* search, validation, save, update, delete, detail load, navigation) and the
\* returns of addTask's POST, updateTask and deleteTask change neither.
SingleWriter ==
    /\ tasks # last.tasksBefore => last.op = "fetchResolved"
    /\ loading # last.loadingBefore => last.op \in FetchStarts \cup FetchSettles
    /\ last.op \in ScreenSteps \cup MutationsDone \cup MutationsFailed
                   \cup {"addTaskFailed", "serverHandle", "serverList"} =>
           tasks = last.tasksBefore /\ loading = last.loadingBefore
    /\ last.op \in FetchStarts \cup {"fetchRejected"} =>
           tasks = last.tasksBefore

\* deleteTask has fulfilled during a fetch, and the cache still holds the
\* task.
SingleWriterSeen ==
    /\ last.op = "deleteTaskDone"
    /\ Holds(tasks, last.req.id)
    /\ ~Holds(server, last.req.id)
    /\ loading

\* C14: when updateTask or deleteTask fulfils for a screen that is still
\* there, the screen is popped and Home's focus effect is due; a focus effect
\* that is due stays due until it runs or Home loses focus, and is due on a
\* focused Home only; when it runs it issues fetchTasks with Home's current
\* search text; a call that fulfils while the server holds what it held when
\* it answered leaves the cache equal to the server's list filtered by the
\* call's query.  When updateTask or deleteTask rejects, the screen stays, no
\* call is issued and no focus effect becomes due.
RefocusRefreshes ==
    /\ (last.op \in MutationsDone /\ last.req.mounted) =>
           top = "Home" /\ homeDirty /\ edit = EditUnmounted
    /\ last.dueBefore => (homeDirty \/ last.op = "fetchStart" \/ top # "Home")
    /\ homeDirty => top = "Home"
    /\ last.op = "fetchStart" =>
           /\ last.dueBefore
           /\ top = "Home"
           /\ Len(calls) = last.callsBefore + 1
           /\ calls[Len(calls)].q = searchQuery
           /\ calls[Len(calls)].st = "sent"
           /\ calls[Len(calls)].waiter = <<>>
    /\ (last.op = "fetchResolved" /\ last.call.from = server) =>
           tasks = ServerList(server, last.call.q)
    /\ last.op \in MutationsFailed =>
           /\ Len(calls) = last.callsBefore
           /\ homeDirty = last.dueBefore
           /\ last.req.mounted => top = "EditTask" /\ ~homeDirty

\* On Home, a call issued for the current search text has fulfilled and the
\* cache shows a task as the server holds it after an update.
RefocusRefreshesSeen ==
    /\ last.op = "fetchResolved"
    /\ top = "Home"
    /\ last.call.from = server
    /\ last.call.q = searchQuery
    /\ tasks # last.tasksBefore
    /\ \E i \in 1..Len(tasks) :
           /\ tasks[i].id \in touched
           /\ tasks[i] \in Range(server)

\* C15 (as stated): when addTask's POST has succeeded and its refresh fails,
\* the cache holds what it held when addTask was called.
AddTaskKeepsPreCallCache ==
    (last.op = "fetchRejected" /\ last.call.waiter # <<>>) =>
        tasks = Poster.cached

\* C15 (amended): when addTask's POST has succeeded and its refresh fails,
\* addTask still returns: handleSave, if its screen is still there, pops it;
\* the server has created the task and holds it unless it has updated or
\* deleted it since; and the cache holds what it held when the refresh
\* failed.  addTask returns only after a fulfilled POST, and when the POST
\* rejects handleSave stays on its screen with the button enabled again.
AddTaskOutcome ==
    /\ (last.op = "fetchRejected" /\ last.call.waiter # <<>>) =>
           /\ tasks = last.tasksBefore
           /\ Poster.mounted => top = "Home" /\ add = AddInitial
           /\ Poster.st = "ok"
           /\ Poster.resp # <<>>
           /\ Poster.resp[1].id < nextId
           /\ CreatedFrom(Poster.resp[1], Poster.body)
           /\ Poster.resp[1].id \notin touched =>
                  Poster.resp[1] \in Range(server)
    /\ (last.op = "fetchResolved" /\ last.call.waiter # <<>>) =>
           /\ Poster.st = "ok"
           /\ Poster.mounted => top = "Home" /\ add = AddInitial
    /\ \A c \in 1..Len(calls) :
           calls[c].waiter # <<>> => calls[c].waiter[1].st = "ok"
    /\ last.op = "addTaskFailed" =>
           /\ Len(calls) = last.callsBefore
           /\ last.req.mounted => top = "AddTask" /\ ~add.isSaving

\* The refresh of an addTask has failed: the screen is popped, the server
\* holds the new task and the cache holds the tasks it held before the call.
AddTaskOutcomeSeen ==
    /\ last.op = "fetchRejected"
    /\ last.call.waiter # <<>>
    /\ Poster.mounted
    /\ Poster.resp[1] \in Range(server)
    /\ tasks = Poster.cached
    /\ tasks # <<>>

\* C16: whenever loading is true a fetchTasks call is in flight; when none is
\* in flight, loading is false.
LoadingImpliesInFlight ==
    loading => calls # <<>>

\* The last of two overlapping calls has returned: loading was false already
\* while it was outstanding, and is false with no call in flight.
LoadingImpliesInFlightSeen ==
    /\ last.op = "fetchResolved"
    /\ last.call.cleared
    /\ ~last.loadingBefore
    /\ calls = <<>>
    /\ ~loading

====
